---------------------------- MODULE Spec2Model ----------------------------
(***************************************************************************)
(* toodoux: the command dispatcher (src/src/subcmd.rs) and the command     *)
(* implementations and rendering pipeline (src/src/cli.rs).                *)
(*                                                                         *)
(* One command-line invocation is one process: it loads the registry from  *)
(* the persisted store, runs one subcommand, possibly saves, possibly      *)
(* renders, and exits.  Task, TaskManager, Metadata and Config live in     *)
(* modules that are not part of the two source files; their operators      *)
(* below follow the repository's specification document.                   *)
(***************************************************************************)
EXTENDS Integers, Sequences, FiniteSets, TLC

VARIABLES
  store,     \* the persisted registry: a function UID -> Task
  pc,        \* "shell": no process is running; "exited": one invocation has run
  call,      \* the invocation's arguments (subcmd, task_uid, flags, content)
  mgr,       \* the in-memory registry (task_mgr) as the invocation left it
  result,    \* run_subcmd's return value: "Ok", "ValidationError", "SaveError"
  saves,     \* number of calls of TaskManager::save made by the invocation
  out,       \* what the invocation printed: a message, or a header and rows
  config,    \* the Config: column labels and status aliases
  now,       \* Utc::now(), in seconds
  view,      \* SpecRender: the (uid, task) pairs handed to the rendering pipeline
  returned,  \* SpecMgr: the UIDs register_task has returned, oldest first
  dur,       \* SpecDur: the duration handed to friendly_duration, in seconds
  text       \* SpecDur: what friendly_duration returned

vars == <<store, pc, call, mgr, result, saves, out, config, now, view, returned, dur, text>>

(***************************************************************************)
(* Bounds of the model.                                                    *)
(***************************************************************************)
\* most tasks a registry holds (add is not offered beyond it)
MaxTasks == 2
\* most rows handed to the rendering pipeline in SpecRender
MaxRows == 2
\* most calls of register_task in SpecMgr
MaxRegs == 4
\* friendly_duration is tried on every whole second from 0 to MaxSeconds,
\* and around every unit boundary
MaxSeconds == 125

\* Option of a string: the string, or None
None == "None"

\* Option of a number: Some(n), or Nothing
Some(x) == <<x>>
Nothing == << >>

Max(a, b) == IF a >= b THEN a ELSE b

(***************************************************************************)
(* Status and Priority.                                                    *)
(***************************************************************************)
Status == {"Todo", "Ongoing", "Done", "Cancelled"}

Priority == {"Low", "Medium", "High", "Critical"}

\* the order of the Status enumeration, which sort_by_key sorts by
StatusRank(s) ==
  CASE s = "Ongoing" -> 0
    [] s = "Todo" -> 1
    [] s = "Done" -> 2
    [] s = "Cancelled" -> 3

(***************************************************************************)
(* Words.  A word is its leading marker ("" for plain content, "+" for a   *)
(* project tag, "!" for a priority tag) and the rest of the token.         *)
(***************************************************************************)
Word(mark, body) == [mark |-> mark, body |-> body]

WordText(w) == w.mark \o w.body

\* the priority a priority token's body names, None when it names none
ParsePriority(body) ==
  CASE body = "low" -> "Low"
    [] body = "medium" -> "Medium"
    [] body = "high" -> "High"
    [] body = "critical" -> "Critical"
    [] OTHER -> None

EmptyMetadata == [priority |-> None, project |-> None]

\* Metadata::from_words: tag tokens are folded into the bundle (for one kind
\* of tag the last occurrence wins), the other words are joined by single
\* spaces into the name.
RECURSIVE from_words_fold(_, _, _)
from_words_fold(words, metadata, name) ==
  IF words = <<>> THEN [metadata |-> metadata, name |-> name]
  ELSE LET w == Head(words) IN
       CASE w.mark = "!" ->
              from_words_fold(Tail(words), [metadata EXCEPT !.priority = w.body], name)
         [] w.mark = "+" ->
              from_words_fold(Tail(words), [metadata EXCEPT !.project = w.body], name)
         [] OTHER ->
              from_words_fold(Tail(words), metadata,
                              IF name = "" THEN WordText(w) ELSE name \o " " \o WordText(w))

from_words(words) == from_words_fold(words, EmptyMetadata, "")

\* Metadata::validate: a priority token must name one of the four levels
validate(metadata) ==
  metadata.priority = None \/ ParsePriority(metadata.priority) \in Priority

(***************************************************************************)
(* Task.                                                                   *)
(***************************************************************************)
\* Task::new(name, Vec::new())
TaskNew(name) ==
  [name |-> name, status |-> "Todo", priority |-> None, project |-> None,
   creation_date |-> Some(now), spent_time |-> 0]

\* Task::apply_metadata: a field the bundle sets overwrites the task's, a
\* field it leaves unset is untouched
apply_metadata(task, metadata) ==
  [task EXCEPT
     !.priority = IF metadata.priority = None THEN @ ELSE ParsePriority(metadata.priority),
     !.project = IF metadata.project = None THEN @ ELSE metadata.project]

change_status(task, status) == [task EXCEPT !.status = status]

change_name(task, name) == [task EXCEPT !.name = name]

(***************************************************************************)
(* TaskManager.                                                            *)
(***************************************************************************)
EmptyRegistry == << >>

SetMax(S) == CHOOSE m \in S : \A x \in S : x <= m

\* the UID register_task allocates: current maximum + 1, or 1 if empty
next_uid(registry) ==
  IF DOMAIN registry = {} THEN 1 ELSE SetMax(DOMAIN registry) + 1

\* TaskManager::register_task
register_task(registry, task) ==
  [uid |-> next_uid(registry),
   registry |-> [u \in DOMAIN registry \cup {next_uid(registry)} |->
                   IF u \in DOMAIN registry THEN registry[u] ELSE task]]

\* removal of a task from the manager
remove_task(registry, uid) ==
  [u \in DOMAIN registry \ {uid} |-> registry[u]]

\* TaskManager::get_mut applied to task_uid: Some exactly for a UID of the registry
get_mut(registry, task_uid) == task_uid # Nothing /\ task_uid[1] \in DOMAIN registry


(***************************************************************************)
(* Config: the column labels and the status aliases.                       *)
(***************************************************************************)
DefaultConfig ==
  [uid_col_name |-> "UID", age_col_name |-> "Age", spent_col_name |-> "Spent",
   prio_col_name |-> "Prio", project_col_name |-> "Project",
   status_col_name |-> "Status", description_col_name |-> "Description",
   todo_alias |-> "TODO", wip_alias |-> "WIP", done_alias |-> "DONE",
   cancelled_alias |-> "CANCELLED"]

\* a configuration of short labels and one-letter aliases
ShortConfig ==
  [uid_col_name |-> "#", age_col_name |-> "A", spent_col_name |-> "S",
   prio_col_name |-> "P", project_col_name |-> "Pj",
   status_col_name |-> "St", description_col_name |-> "D",
   todo_alias |-> "T", wip_alias |-> "W", done_alias |-> "D",
   cancelled_alias |-> "C"]

\* a configuration of long labels and aliases
LongConfig ==
  [uid_col_name |-> "Identifier", age_col_name |-> "Created", spent_col_name |-> "Worked",
   prio_col_name |-> "Priority", project_col_name |-> "Project name",
   status_col_name |-> "Task status", description_col_name |-> "What",
   todo_alias |-> "TO BE DONE", wip_alias |-> "IN PROGRESS", done_alias |-> "DONE",
   cancelled_alias |-> "CANCELLED"]

Configs == {DefaultConfig, ShortConfig, LongConfig}

\* the alias the configuration gives a status
StatusAlias(cfg, status) ==
  CASE status = "Ongoing" -> cfg.wip_alias
    [] status = "Todo" -> cfg.todo_alias
    [] status = "Done" -> cfg.done_alias
    [] status = "Cancelled" -> cfg.cancelled_alias

(***************************************************************************)
(* Friendly durations.  A Duration is a whole number of seconds.           *)
(***************************************************************************)
num_seconds(d) == d
num_minutes(d) == d \div 60
num_hours(d) == d \div 3600
num_days(d) == d \div 86400
num_weeks(d) == d \div 604800

\* format!("{}<suffix>", n)
Fmt(n, suffix) == [n |-> n, suffix |-> suffix]

friendly_duration_weeks_inclusive(d) ==
  IF num_minutes(d) < 1 THEN Fmt(num_seconds(d), "s")
  ELSE IF num_hours(d) < 1 THEN Fmt(num_minutes(d), "min")
  ELSE IF num_days(d) < 1 THEN Fmt(num_hours(d), "h")
  ELSE IF num_weeks(d) < 2 THEN Fmt(num_days(d), "d")
  ELSE IF num_weeks(d) <= 4 THEN Fmt(num_weeks(d), "w")
  ELSE Fmt(num_weeks(d) \div 4, "m")

friendly_duration(d) ==
  IF num_minutes(d) < 1 THEN Fmt(num_seconds(d), "s")
  ELSE IF num_hours(d) < 1 THEN Fmt(num_minutes(d), "min")
  ELSE IF num_days(d) < 1 THEN Fmt(num_hours(d), "h")
  ELSE IF num_weeks(d) < 2 THEN Fmt(num_days(d), "d")
  ELSE IF num_weeks(d) < 4 THEN Fmt(num_weeks(d), "w")
  ELSE Fmt(num_weeks(d) \div 4, "m")

\* now - creation_date, the creation date defaulting to now
friendly_task_age(task) ==
  friendly_duration(now - (IF task.creation_date = Nothing THEN now ELSE task.creation_date[1]))

friendly_priority(task) ==
  CASE task.priority = "Low" -> "LOW"
    [] task.priority = "Medium" -> "MED"
    [] task.priority = "High" -> "HIGH"
    [] task.priority = "Critical" -> "CRIT"
    [] OTHER -> ""

friendly_project(task) == IF task.project = None THEN "" ELSE task.project

friendly_spent_time(d, status) == IF d = 0 THEN "" ELSE friendly_duration(d)

(***************************************************************************)
(* DisplayOptions.                                                         *)
(***************************************************************************)
guess_task_uid_width(uid) ==
  IF uid < 10 THEN 1
  ELSE IF uid < 100 THEN 2
  ELSE IF uid < 1000 THEN 3
  ELSE IF uid < 10000 THEN 4
  ELSE IF uid < 100000 THEN 5
  ELSE 6

guess_task_status_width(cfg, status) ==
  Max(Len(StatusAlias(cfg, status)), Len("Status"))

guess_task_project_width(task) ==
  IF task.project = None THEN Nothing ELSE Some(Len(task.project))

unwrap_or(opt, default) == IF opt = Nothing THEN default ELSE opt[1]

\* the accumulator the fold starts from: (0, 0, 0, 0, false, false, false)
FoldInit ==
  [task_uid_width |-> 0, status_width |-> 0, description_width |-> 0,
   project_width |-> 0, has_spent_time |-> FALSE, has_priorities |-> FALSE,
   has_projects |-> FALSE]

\* the fold's closure.  It binds has_spent_tiem and returns the accumulator's
\* has_spent_time, so the flag comes out as it went in.
FoldStep(cfg, acc, row) ==
  [task_uid_width |-> Max(acc.task_uid_width, guess_task_uid_width(row.uid)),
   status_width |-> Max(acc.status_width, guess_task_status_width(cfg, row.task.status)),
   description_width |-> Max(acc.description_width, Len(row.task.name)),
   project_width |-> Max(acc.project_width, unwrap_or(guess_task_project_width(row.task), 0)),
   has_spent_time |-> acc.has_spent_time,
   has_priorities |-> acc.has_priorities \/ row.task.priority # None,
   has_projects |-> acc.has_projects \/ row.task.project # None]

RECURSIVE Fold(_, _, _)
Fold(cfg, acc, rows) ==
  IF rows = <<>> THEN acc ELSE Fold(cfg, FoldStep(cfg, acc, Head(rows)), Tail(rows))

\* DisplayOptions::new
DisplayOptionsNew(cfg, rows) ==
  LET f == Fold(cfg, FoldInit, rows) IN
  [task_uid_width |-> Max(f.task_uid_width, Len(cfg.uid_col_name)),
   status_width |-> Max(f.status_width, Len(cfg.status_col_name)),
   description_width |-> Max(f.description_width, Len(cfg.description_col_name)),
   project_width |-> Max(f.project_width, Len(cfg.project_col_name)),
   has_spent_time |-> f.has_spent_time,
   has_priorities |-> f.has_priorities,
   has_projects |-> f.has_projects]

(***************************************************************************)
(* Header and rows.  A printed line is the sequence of its cells, each the *)
(* column it belongs to, its text and the width it is padded to.           *)
(***************************************************************************)
Cell(col, txt, width) == [col |-> col, text |-> txt, width |-> width]

OptCell(shown, cell) == IF shown THEN <<cell>> ELSE <<>>

display_task_header(cfg, opts) ==
  <<Cell("uid", cfg.uid_col_name, opts.task_uid_width),
    Cell("age", cfg.age_col_name, Len(cfg.age_col_name))>>
  \o OptCell(opts.has_spent_time,
             Cell("spent", cfg.spent_col_name, Len(cfg.spent_col_name)))
  \o OptCell(opts.has_priorities,
             Cell("priority", cfg.prio_col_name, Len(cfg.prio_col_name)))
  \o OptCell(opts.has_projects,
             Cell("project", cfg.project_col_name, opts.project_width))
  \o <<Cell("status", cfg.status_col_name, opts.status_width),
       Cell("description", cfg.description_col_name, opts.description_width)>>

display_task_inline_project_first(cfg, uid, task, parity, opts) ==
  <<Cell("uid", uid, opts.task_uid_width),
    Cell("age", friendly_task_age(task), Len(cfg.age_col_name))>>
  \o OptCell(opts.has_spent_time,
             Cell("spent", friendly_spent_time(task.spent_time, task.status),
                  Len(cfg.spent_col_name)))
  \o OptCell(opts.has_projects,
             Cell("project", friendly_project(task), opts.project_width))
  \o OptCell(opts.has_priorities,
             Cell("priority", friendly_priority(task), Len(cfg.prio_col_name)))
  \o <<Cell("status", StatusAlias(cfg, task.status), opts.status_width),
       Cell("description", task.name, opts.description_width)>>

\* parity only picks the background of a Todo task's name
display_task_inline(cfg, uid, task, parity, opts) ==
  <<Cell("uid", uid, opts.task_uid_width),
    Cell("age", friendly_task_age(task), Len(cfg.age_col_name))>>
  \o OptCell(opts.has_spent_time,
             Cell("spent", friendly_spent_time(task.spent_time, task.status),
                  Len(cfg.spent_col_name)))
  \o OptCell(opts.has_priorities,
             Cell("priority", friendly_priority(task), Len(cfg.prio_col_name)))
  \o OptCell(opts.has_projects,
             Cell("project", friendly_project(task), opts.project_width))
  \o <<Cell("status", StatusAlias(cfg, task.status), opts.status_width),
       Cell("description", task.name, opts.description_width)>>

Row(uid, task) == [uid |-> uid, task |-> task]

\* what a rendering prints: the display options, the header, and one line per
\* row, the first with parity true and the parity alternating
Render(cfg, rows) ==
  LET opts == DisplayOptionsNew(cfg, rows) IN
  [message |-> None,
   opts |-> opts,
   header |-> display_task_header(cfg, opts),
   lines |-> [i \in 1..Len(rows) |->
                display_task_inline(cfg, rows[i].uid, rows[i].task, i % 2 = 1, opts)],
   uids |-> [i \in 1..Len(rows) |-> rows[i].uid]]

Message(msg) == [message |-> msg]

NoOutput == [message |-> None]

(***************************************************************************)
(* The commands.  A command's outcome is run_subcmd's return value, the    *)
(* in-memory registry and the persisted store it leaves, the number of     *)
(* calls of save it made, and what it printed.                             *)
(***************************************************************************)
Outcome(res, registry, persisted, nsaves, printed) ==
  [result |-> res, mgr |-> registry, store |-> persisted, saves |-> nsaves,
   out |-> printed]

\* TaskManager::save(config)?: the store takes the registry, or the save fails
\* and the error is returned
SaveThen(registry, persisted, saveOk, printed) ==
  IF saveOk THEN Outcome("Ok", registry, registry, 1, printed)
  ELSE Outcome("SaveError", registry, persisted, 1, NoOutput)

RECURSIVE SetToSeq(_)
SetToSeq(S) ==
  IF S = {} THEN <<>>
  ELSE LET m == CHOOSE x \in S : \A y \in S : x <= y IN <<m>> \o SetToSeq(S \ {m})

\* TaskManager::tasks(): the (uid, task) pairs, here by ascending UID
tasks(registry) ==
  LET uids == SetToSeq(DOMAIN registry) IN
  [i \in 1..Len(uids) |-> Row(uids[i], registry[uids[i]])]

\* the filter closure of list_tasks
Listed(status, todo, start, cancelled, done) ==
  CASE status = "Ongoing" -> start
    [] status = "Todo" -> todo
    [] status = "Done" -> done
    [] status = "Cancelled" -> cancelled

\* the rows of one status rank, in the order they have in rows
OfRank(rows, k) ==
  LET HasRank(r) == StatusRank(r.task.status) = k IN SelectSeq(rows, HasRank)

\* tasks.sort_by_key(|(_, task)| task.status()): a stable sort
sort_by_status(rows) ==
  OfRank(rows, 0) \o OfRank(rows, 1) \o OfRank(rows, 2) \o OfRank(rows, 3)

list_tasks(cfg, persisted, todo, start, cancelled, done) ==
  LET Keep(r) == Listed(r.task.status, todo, start, cancelled, done)
      kept == SelectSeq(tasks(persisted), Keep)
  IN Outcome("Ok", persisted, persisted, 0, Render(cfg, sort_by_status(kept)))

default_list_done_for_cancelled(cfg, persisted, todo, start, cancelled, done, all) ==
  IF all THEN list_tasks(cfg, persisted, TRUE, TRUE, TRUE, TRUE)
  ELSE IF ~(todo \/ start \/ done \/ cancelled)
       THEN list_tasks(cfg, persisted, TRUE, TRUE, done, cancelled)
       ELSE list_tasks(cfg, persisted, todo, start, done, cancelled)

default_list(cfg, persisted, todo, start, cancelled, done, all) ==
  IF all THEN list_tasks(cfg, persisted, TRUE, TRUE, TRUE, TRUE)
  ELSE IF ~(todo \/ start \/ done \/ cancelled)
       THEN list_tasks(cfg, persisted, TRUE, TRUE, cancelled, done)
       ELSE list_tasks(cfg, persisted, todo, start, cancelled, done)

\* the task add_task builds before it registers it
NewTask(parsed, start, done) ==
  LET task == apply_metadata(TaskNew(parsed.name), parsed.metadata) IN
  IF start THEN change_status(task, "Ongoing")
  ELSE IF done THEN change_status(task, "Done")
  ELSE task

add_task(cfg, persisted, start, done, content, saveOk) ==
  LET parsed == from_words(content) IN
  IF ~validate(parsed.metadata)
  THEN Outcome("ValidationError", persisted, persisted, 0, NoOutput)
  ELSE LET task == NewTask(parsed, start, done)
           reg == register_task(persisted, task)
       IN SaveThen(reg.registry, persisted, saveOk,
                   Render(cfg, <<Row(reg.uid, task)>>))

edit_task_renames_first(task, content) ==
  LET parsed == from_words(content)
      renamed == IF parsed.name # "" THEN change_name(task, parsed.name) ELSE task
  IN IF ~validate(parsed.metadata)
     THEN [ok |-> FALSE, task |-> renamed]
     ELSE [ok |-> TRUE, task |-> apply_metadata(renamed, parsed.metadata)]

\* edit_task: Err leaves the task as it is, Ok has applied the metadata and,
\* if the words left a name, the name
edit_task(task, content) ==
  LET parsed == from_words(content) IN
  IF ~validate(parsed.metadata)
  THEN [ok |-> FALSE, task |-> task]
  ELSE LET applied == apply_metadata(task, parsed.metadata) IN
       [ok |-> TRUE,
        task |-> IF parsed.name # "" THEN change_name(applied, parsed.name) ELSE applied]

(***************************************************************************)
(* run_subcmd, one operator per arm of its match.  persisted is the store  *)
(* TaskManager::new_from_config loads the registry from.                   *)
(***************************************************************************)
subcmd_none(cfg, persisted) ==
  default_list(cfg, persisted, TRUE, TRUE, FALSE, FALSE, FALSE)

subcmd_add(cfg, persisted, task_uid, start, done, content, saveOk) ==
  IF task_uid = Nothing
  THEN add_task(cfg, persisted, start, done, content, saveOk)
  ELSE Outcome("Ok", persisted, persisted, 0,
               Message("cannot add a task to another one"))

subcmd_edit(persisted, task_uid, content, saveOk) ==
  IF get_mut(persisted, task_uid)
  THEN LET edited == edit_task(persisted[task_uid[1]], content)
           registry == [persisted EXCEPT ![task_uid[1]] = edited.task]
       IN IF edited.ok THEN SaveThen(registry, persisted, saveOk, NoOutput)
          ELSE Outcome("ValidationError", registry, persisted, 0, NoOutput)
  ELSE Outcome("Ok", persisted, persisted, 0, Message("missing or unknown task to edit"))

ChangeStatusArmKeepsClosed(persisted, task_uid, status, saveOk, missing) ==
  IF get_mut(persisted, task_uid)
  THEN SaveThen([persisted EXCEPT ![task_uid[1]] =
                   IF @.status \in {"Done", "Cancelled"} THEN @ ELSE change_status(@, status)],
                persisted, saveOk, NoOutput)
  ELSE Outcome("Ok", persisted, persisted, 0, Message(missing))

\* the four status arms: look the task up, change its status, save
ChangeStatusArm(persisted, task_uid, status, saveOk, missing) ==
  IF get_mut(persisted, task_uid)
  THEN SaveThen([persisted EXCEPT ![task_uid[1]] = change_status(@, status)],
                persisted, saveOk, NoOutput)
  ELSE Outcome("Ok", persisted, persisted, 0, Message(missing))

subcmd_todo(persisted, task_uid, saveOk) ==
  ChangeStatusArm(persisted, task_uid, "Todo", saveOk, "missing or unknown task")

subcmd_start_saves_anyway(persisted, task_uid, saveOk) ==
  IF get_mut(persisted, task_uid)
  THEN SaveThen([persisted EXCEPT ![task_uid[1]] = change_status(@, "Ongoing")],
                persisted, saveOk, NoOutput)
  ELSE SaveThen(persisted, persisted, saveOk, Message("missing or unknown task to start"))

subcmd_start(persisted, task_uid, saveOk) ==
  ChangeStatusArm(persisted, task_uid, "Ongoing", saveOk, "missing or unknown task to start")

subcmd_done(persisted, task_uid, saveOk) ==
  ChangeStatusArm(persisted, task_uid, "Done", saveOk, "missing or unknown task to finish")

subcmd_cancel(persisted, task_uid, saveOk) ==
  ChangeStatusArm(persisted, task_uid, "Cancelled", saveOk, "missing or unknown task to cancel")

subcmd_remove(persisted) == Outcome("Ok", persisted, persisted, 0, NoOutput)

subcmd_list(cfg, persisted, todo, start, done, cancelled, all) ==
  default_list(cfg, persisted, todo, start, cancelled, done, all)

(***************************************************************************)
(* The command line.  Spec: every invocation starts from the shell, runs   *)
(* one subcommand against the persisted store, and exits.                  *)
(***************************************************************************)
fix == Word("", "fix")
it == Word("", "it")
be == Word("+", "be")
high == Word("!", "high")
asap == Word("!", "asap")

\* the content words tried: none, names, valid tags alone and with a name,
\* and a priority token that names no level
Contents ==
  {<<>>, <<fix>>, <<fix, it>>, <<be, high>>, <<it, be, high>>, <<asap>>,
   <<it, asap, be>>}

\* the task UIDs tried: none, the UIDs a registry can hold, and one it cannot
UidArgs == {Nothing} \cup {Some(u) : u \in 1..(MaxTasks + 1)}

NoCall == [subcmd |-> None]

Idle ==
  /\ pc = "shell"
  /\ call = NoCall
  /\ mgr = EmptyRegistry
  /\ result = None
  /\ saves = 0
  /\ out = NoOutput

Init ==
  /\ store = EmptyRegistry
  /\ Idle
  /\ config = DefaultConfig
  /\ now = 0
  /\ view = <<>>
  /\ returned = <<>>
  /\ dur = 0
  /\ text = None

\* the invocation c ran to the outcome o
Ran(c, o) ==
  /\ pc' = "exited"
  /\ call' = c
  /\ mgr' = o.mgr
  /\ store' = o.store
  /\ result' = o.result
  /\ saves' = o.saves
  /\ out' = o.out
  /\ UNCHANGED <<config, now, view, returned, dur, text>>

CmdNone ==
  /\ pc = "shell"
  /\ \E task_uid \in UidArgs :
       Ran([subcmd |-> "none", task_uid |-> task_uid], subcmd_none(config, store))

CmdAdd ==
  /\ pc = "shell"
  /\ Cardinality(DOMAIN store) < MaxTasks
  /\ \E task_uid \in {Nothing, Some(1)}, start \in BOOLEAN, done \in BOOLEAN,
        content \in Contents, saveOk \in BOOLEAN :
       Ran([subcmd |-> "add", task_uid |-> task_uid, start |-> start, done |-> done,
            content |-> content],
           subcmd_add(config, store, task_uid, start, done, content, saveOk))

CmdEdit ==
  /\ pc = "shell"
  /\ \E task_uid \in UidArgs, content \in Contents, saveOk \in BOOLEAN :
       Ran([subcmd |-> "edit", task_uid |-> task_uid, content |-> content],
           subcmd_edit(store, task_uid, content, saveOk))

CmdTodo ==
  /\ pc = "shell"
  /\ \E task_uid \in UidArgs, saveOk \in BOOLEAN :
       Ran([subcmd |-> "todo", task_uid |-> task_uid],
           subcmd_todo(store, task_uid, saveOk))

CmdStart ==
  /\ pc = "shell"
  /\ \E task_uid \in UidArgs, saveOk \in BOOLEAN :
       Ran([subcmd |-> "start", task_uid |-> task_uid],
           subcmd_start(store, task_uid, saveOk))

CmdDone ==
  /\ pc = "shell"
  /\ \E task_uid \in UidArgs, saveOk \in BOOLEAN :
       Ran([subcmd |-> "done", task_uid |-> task_uid],
           subcmd_done(store, task_uid, saveOk))

CmdCancel ==
  /\ pc = "shell"
  /\ \E task_uid \in UidArgs, saveOk \in BOOLEAN :
       Ran([subcmd |-> "cancel", task_uid |-> task_uid],
           subcmd_cancel(store, task_uid, saveOk))

CmdRemove ==
  /\ pc = "shell"
  /\ \E task_uid \in UidArgs, all \in BOOLEAN :
       Ran([subcmd |-> "remove", task_uid |-> task_uid, all |-> all],
           subcmd_remove(store))

CmdList ==
  /\ pc = "shell"
  /\ \E todo \in BOOLEAN, start \in BOOLEAN, done \in BOOLEAN, cancelled \in BOOLEAN,
        all \in BOOLEAN :
       Ran([subcmd |-> "list", task_uid |-> Nothing, todo |-> todo, start |-> start,
            done |-> done, cancelled |-> cancelled, all |-> all],
           subcmd_list(config, store, todo, start, done, cancelled, all))

\* the process exits: its registry and its output are gone, the store stays
Exit ==
  /\ pc = "exited"
  /\ pc' = "shell"
  /\ call' = NoCall
  /\ mgr' = EmptyRegistry
  /\ result' = None
  /\ saves' = 0
  /\ out' = NoOutput
  /\ UNCHANGED <<store, config, now, view, returned, dur, text>>

Next ==
  \/ CmdNone
  \/ CmdAdd
  \/ CmdEdit
  \/ CmdTodo
  \/ CmdStart
  \/ CmdDone
  \/ CmdCancel
  \/ CmdRemove
  \/ CmdList
  \/ Exit

Spec == Init /\ [][Next]_vars

(***************************************************************************)
(* SpecRender: the rendering pipeline on its own.  A view is a sequence of *)
(* (uid, task) pairs with distinct UIDs, as list_tasks and add_task hand   *)
(* to DisplayOptions::new, under any of the configurations.                *)
(***************************************************************************)
TaskOf(name, status, priority, project, creation_date, spent_time) ==
  [name |-> name, status |-> status, priority |-> priority, project |-> project,
   creation_date |-> creation_date, spent_time |-> spent_time]

RenderRows ==
  {Row(1, TaskOf("fix", "Todo", None, None, Some(0), 0)),
   Row(2, TaskOf("write spec", "Done", "High", "toodoux", Some(86400), 0)),
   Row(3, TaskOf("", "Ongoing", None, None, Nothing, 90)),
   Row(12, TaskOf("a much longer description", "Cancelled", "Low", None, Some(90000), 7200)),
   Row(99999, TaskOf("fix it", "Ongoing", "Critical", "a long project name", Some(0), 0)),
   Row(1000000, TaskOf("it", "Todo", None, "be", Some(0), 0))}

Views ==
  {v \in UNION {[1..n -> RenderRows] : n \in 0..MaxRows} :
     \A i, j \in 1..Len(v) : i # j => v[i].uid # v[j].uid}

InitRender ==
  /\ store = EmptyRegistry
  /\ Idle
  /\ config \in Configs
  /\ now = 90000
  /\ view \in Views
  /\ returned = <<>>
  /\ dur = 0
  /\ text = None

RenderView ==
  /\ pc = "shell"
  /\ pc' = "exited"
  /\ out' = Render(config, view)
  /\ UNCHANGED <<store, call, mgr, result, saves, config, now, view, returned, dur, text>>

NextRender == RenderView

SpecRender == InitRender /\ [][NextRender]_vars

(***************************************************************************)
(* SpecMgr: the TaskManager on its own, under registrations and removals.  *)
(***************************************************************************)
InitMgr ==
  /\ store = EmptyRegistry
  /\ Idle
  /\ config = DefaultConfig
  /\ now = 0
  /\ view = <<>>
  /\ returned = <<>>
  /\ dur = 0
  /\ text = None

MgrRegister ==
  /\ Len(returned) < MaxRegs
  /\ \E name \in {"fix", "it"} :
       LET reg == register_task(store, TaskNew(name)) IN
       /\ store' = reg.registry
       /\ returned' = Append(returned, reg.uid)
  /\ UNCHANGED <<pc, call, mgr, result, saves, out, config, now, view, dur, text>>

MgrRemove ==
  /\ \E uid \in DOMAIN store : store' = remove_task(store, uid)
  /\ UNCHANGED <<pc, call, mgr, result, saves, out, config, now, view, returned, dur, text>>

NextMgr ==
  \/ MgrRegister
  \/ MgrRemove

SpecMgr == InitMgr /\ [][NextMgr]_vars

(***************************************************************************)
(* SpecDur: friendly_duration on its own.                                  *)
(***************************************************************************)
\* the seconds at which the unit changes, or the count of the unit does
UnitBoundaries ==
  {60, 120, 3600, 7200, 86400, 172800, 604800, 1209600, 1814400, 2419200,
   3024000, 4838400, 7257600, 9676800}

DurInputs ==
  (0..MaxSeconds)
  \cup UNION {{b - 1, b, b + 1} : b \in UnitBoundaries}
  \cup {45, 90, 7200, 10 * 86400, 20 * 86400, 100 * 86400}

InitDur ==
  /\ store = EmptyRegistry
  /\ Idle
  /\ config = DefaultConfig
  /\ now = 0
  /\ view = <<>>
  /\ returned = <<>>
  /\ dur \in DurInputs
  /\ text = None

FormatDuration ==
  /\ pc = "shell"
  /\ pc' = "exited"
  /\ text' = friendly_duration(dur)
  /\ UNCHANGED <<store, call, mgr, result, saves, out, config, now, view, returned, dur>>

NextDur == FormatDuration

SpecDur == InitDur /\ [][NextDur]_vars

(***************************************************************************)
(* Properties.                                                             *)
(***************************************************************************)
\* an invocation: the step from the shell to the exited process
Invocation == pc = "shell" /\ pc' = "exited"

StatusCmds == {"todo", "start", "done", "cancel"}

\* the status each status subcommand is said to set
TargetStatus(subcmd) ==
  CASE subcmd = "todo" -> "Todo"
    [] subcmd = "start" -> "Ongoing"
    [] subcmd = "done" -> "Done"
    [] subcmd = "cancel" -> "Cancelled"

\* C1: when validation of the bundle parsed from the content words fails,
\* edit leaves the in-memory registry, and so the target task, as it was
\* loaded, add registers nothing, save is not called and the store is as
\* it was; the invocation returns the validation error.
ValidationFailureMutatesNothing ==
  [][(/\ Invocation
      /\ call'.subcmd \in {"add", "edit"}
      /\ \/ call'.subcmd = "add" /\ call'.task_uid = Nothing
         \/ call'.subcmd = "edit" /\ get_mut(store, call'.task_uid)
      /\ ~validate(from_words(call'.content).metadata))
     => (/\ result' = "ValidationError"
         /\ mgr' = store
         /\ store' = store
         /\ saves' = 0)]_vars

\* an edit whose words carry a name and an invalid priority token has failed
\* on a registered task that carries metadata
ValidationFailureWitness ==
  /\ pc = "exited"
  /\ call.subcmd = "edit"
  /\ call.content = <<it, asap, be>>
  /\ get_mut(store, call.task_uid)
  /\ store[call.task_uid[1]].name = "fix"
  /\ store[call.task_uid[1]].priority = "High"
  /\ result = "ValidationError"

\* C3: a status subcommand on a UID of the registry sets that task's status
\* to its target whatever the status was, changes nothing else, and calls
\* save once; when the save succeeds the store holds the new status.
StatusCommandsOverwrite ==
  [][(/\ Invocation
      /\ call'.subcmd \in StatusCmds
      /\ get_mut(store, call'.task_uid))
     => (/\ mgr' = [store EXCEPT ![call'.task_uid[1]].status = TargetStatus(call'.subcmd)]
         /\ saves' = 1
         /\ result' \in {"Ok", "SaveError"}
         /\ result' = "Ok" => store' = mgr')]_vars

\* cancel has run on a task whose persisted status was Done: the registry
\* holds it Cancelled, and the failed save left Done in the store
StatusCommandsWitness ==
  /\ pc = "exited"
  /\ call.subcmd = "cancel"
  /\ get_mut(store, call.task_uid)
  /\ store[call.task_uid[1]].status = "Done"
  /\ mgr[call.task_uid[1]].status = "Cancelled"
  /\ saves = 1

\* C8: every task of the persisted store has a non-empty name.
SavedNamesNonEmpty == \A uid \in DOMAIN store : store[uid].name # ""

ListedStatuses(c) ==
  IF c.subcmd = "none" THEN {"Todo", "Ongoing"}
  ELSE IF c.all THEN Status
  ELSE IF ~(c.todo \/ c.start \/ c.done \/ c.cancelled) THEN {"Todo", "Ongoing"}
  ELSE {st \in Status :
          \/ st = "Todo" /\ c.todo
          \/ st = "Ongoing" /\ c.start
          \/ st = "Done" /\ c.done
          \/ st = "Cancelled" /\ c.cancelled}

\* C10: a listing shows, once each, exactly the tasks whose status the
\* toggles select, and neither mutates the registry nor saves.
ListingShowsSelected ==
  [][(/\ Invocation
      /\ call'.subcmd \in {"list", "none"})
     => (/\ {out'.uids[i] : i \in DOMAIN out'.uids}
              = {uid \in DOMAIN store : store[uid].status \in ListedStatuses(call')}
         /\ Len(out'.uids)
              = Cardinality({uid \in DOMAIN store : store[uid].status \in ListedStatuses(call')})
         /\ Len(out'.lines) = Len(out'.uids)
         /\ mgr' = store
         /\ store' = store
         /\ saves' = 0
         /\ result' = "Ok")]_vars

\* list --done has run on a store holding a Done and a Cancelled task and
\* shows the Done one only
ListingWitness ==
  /\ pc = "exited"
  /\ call.subcmd = "list"
  /\ call.done /\ ~call.cancelled /\ ~call.todo /\ ~call.start /\ ~call.all
  /\ DOMAIN store = {1, 2}
  /\ store[1].status = "Cancelled"
  /\ store[2].status = "Done"
  /\ out.uids = <<2>>

(***************************************************************************)
(* Properties of the rendering pipeline (SpecRender).                      *)
(***************************************************************************)
Cols(line) == [k \in 1..Len(line) |-> line[k].col]

HasCol(line, col) == \E k \in 1..Len(line) : line[k].col = col

Rendered == pc = "exited"

HasSpent(task) == task.spent_time # 0
HasPriority(task) == task.priority # None
HasProject(task) == task.project # None

SomeSpent == \E i \in 1..Len(view) : HasSpent(view[i].task)
SomePriority == \E i \in 1..Len(view) : HasPriority(view[i].task)
SomeProject == \E i \in 1..Len(view) : HasProject(view[i].task)

\* C4: the spent-time column is shown, in the header and in every row, if
\* and only if some rendered task has a nonzero spent time.
SpentColumnIffSpent ==
  Rendered =>
    /\ out.opts.has_spent_time <=> SomeSpent
    /\ HasCol(out.header, "spent") <=> SomeSpent
    /\ \A i \in 1..Len(out.lines) : HasCol(out.lines[i], "spent") <=> SomeSpent

\* C5: the priority column (the project column) is printed if and only if
\* some rendered task has a priority (a project), and every row prints the
\* header's columns in the header's order.
PriorityAndProjectColumns ==
  Rendered =>
    /\ HasCol(out.header, "priority") <=> SomePriority
    /\ HasCol(out.header, "project") <=> SomeProject
    /\ \A i \in 1..Len(out.lines) : Cols(out.lines[i]) = Cols(out.header)

\* two rows, both with a priority, one with a project: both columns are
\* printed, in the header and in the row that has no project
ColumnsWitness ==
  /\ Rendered
  /\ Len(view) = 2
  /\ \A i \in 1..2 : HasPriority(view[i].task)
  /\ \E i \in 1..2 : ~HasProject(view[i].task)
  /\ \E i \in 1..2 : HasProject(view[i].task)
  /\ HasCol(out.header, "priority") /\ HasCol(out.header, "project")
  /\ \A i \in 1..2 : HasCol(out.lines[i], "project")

RECURSIVE DecimalDigits(_)
DecimalDigits(n) == IF n < 10 THEN 1 ELSE 1 + DecimalDigits(n \div 10)

\* the larger of the label's length and the longest of the values' lengths
ExactWidth(label, lengths) == SetMax(lengths \cup {Len(label)})

\* C6: each of the UID, status, description and project columns is exactly
\* as wide as the longer of its label and its longest rendered value.
WidthsAreExact ==
  Rendered =>
    /\ out.opts.task_uid_width
         = ExactWidth(config.uid_col_name,
                      {DecimalDigits(view[i].uid) : i \in 1..Len(view)})
    /\ out.opts.status_width
         = ExactWidth(config.status_col_name,
                      {Len(StatusAlias(config, view[i].task.status)) : i \in 1..Len(view)})
    /\ out.opts.description_width
         = ExactWidth(config.description_col_name,
                      {Len(view[i].task.name) : i \in 1..Len(view)})
    /\ out.opts.project_width
         = ExactWidth(config.project_col_name,
                      {Len(friendly_project(view[i].task)) : i \in 1..Len(view)})

StatedDuration(d) ==
  IF d < 60 THEN Fmt(d, "s")
  ELSE IF d < 3600 THEN Fmt(d \div 60, "min")
  ELSE IF d < 86400 THEN Fmt(d \div 3600, "h")
  ELSE IF d < 14 * 86400 THEN Fmt(d \div 86400, "d")
  ELSE IF d < 28 * 86400 THEN Fmt(d \div 604800, "w")
  ELSE Fmt((d \div 604800) \div 4, "m")

\* C7: friendly_duration of a non-negative whole number of seconds is the
\* count and the suffix stated for its range.
FriendlyDurationAsStated ==
  pc = "exited" => text = StatedDuration(dur)

\* 100 days have been rendered as 3m
FriendlyDurationWitness ==
  /\ pc = "exited"
  /\ dur = 100 * 86400
  /\ text = Fmt(3, "m")

=============================================================================
